---- MODULE Spec2Model ----
(***************************************************************************)
(* The STAC-item to ODC-dataset transformation of odc/index/stac.py:       *)
(* _stac_product_lookup, _get_stac_bands, _geographic_to_projected and     *)
(* stac_transform / stac_transform_absolute.                               *)
(*                                                                         *)
(* Representation of Python values                                         *)
(*   dict            a function whose DOMAIN is the set of keys present    *)
(*                   (insertion order is not represented)                  *)
(*   item['assets']  the sequence of <<name, asset>> pairs that .items()   *)
(*                   yields, in stored order, names distinct               *)
(*   str             a TLA+ string; the strings that .lower() or           *)
(*                   .replace() act on are sequences of one-character      *)
(*                   strings                                               *)
(*   float / int     pixel spacings and transform coefficients are counted *)
(*                   in thousandths (10 m is 10000), below 1000 m, where   *)
(*                   the six significant digits of ':g' are exact          *)
(*   None / value    <<>> / <<value>>                                      *)
(*   raise           a result record [raised |-> TRUE, error |-> ...]      *)
(***************************************************************************)
EXTENDS Integers, Sequences, FiniteSets, TLC

VARIABLES
    input_stac,          \* the argument of the call
    default_grid,        \* _get_stac_bands' default_grid argument
    relative,            \* the relative argument
    pc,                  \* position in the called function
    product_label,       \* stac_transform locals, line 96
    product_name,
    region_code,
    deterministic_uuid,  \* line 98
    bands,               \* line 100 (or _get_stac_bands' own result)
    grids,
    native_crs,          \* line 104
    geometry,            \* line 106
    stac_odc,            \* the returned document
    error                \* the exception that left the call

vars == <<input_stac, default_grid, relative, pc, product_label, product_name,
          region_code, deterministic_uuid, bands, grids, native_crs, geometry,
          stac_odc, error>>

----------------------------------------------------------------------------
(* Bounds of the explored inputs *)

\* most assets of an item handed to _get_stac_bands directly
MaxAssets == 3

\* most properties absent from an item handed to stac_transform
MaxMissing == 1

----------------------------------------------------------------------------
(* Python primitives *)

None == <<>>

Some(v) == <<v>>

\* bool(x) of an optional string
Truthy(opt) == opt # None /\ opt[1] # ""

Return(v) == [raised |-> FALSE, value |-> v]

Raise(e) == [raised |-> TRUE, error |-> e]

\* d[key] of a dict without that key
KeyError(key) == [type |-> "KeyError", key |-> key]

\* seq[0] of an empty list
IndexError == [type |-> "IndexError", key |-> "list index out of range"]

NoError == [type |-> "", key |-> ""]

\* the first key of keys that d lacks: the subscript that raises
RECURSIVE FirstMissing(_, _)
FirstMissing(d, keys) ==
    IF keys = <<>> THEN None
    ELSE IF Head(keys) \notin DOMAIN d THEN Some(Head(keys))
    ELSE FirstMissing(d, Tail(keys))

Digit(d) == <<"0", "1", "2", "3", "4", "5", "6", "7", "8", "9">>[d + 1]

\* str(n) of a natural number, one character per element
RECURSIVE Str(_)
Str(n) == IF n < 10 THEN <<Digit(n)>> ELSE Append(Str(n \div 10), Digit(n % 10))

\* ''.join(chars)
RECURSIVE Join(_)
Join(chars) == IF chars = <<>> THEN "" ELSE Head(chars) \o Join(Tail(chars))

\* s[-2:]
LastTwo(s) == IF Len(s) <= 2 THEN s ELSE SubSeq(s, Len(s) - 1, Len(s))

UpperCase == <<"A", "B", "C", "D", "E", "F", "G", "H", "I", "J", "K", "L", "M",
               "N", "O", "P", "Q", "R", "S", "T", "U", "V", "W", "X", "Y", "Z">>

LowerCase == <<"a", "b", "c", "d", "e", "f", "g", "h", "i", "j", "k", "l", "m",
               "n", "o", "p", "q", "r", "s", "t", "u", "v", "w", "x", "y", "z">>

LowerChar(c) ==
    IF \E i \in DOMAIN UpperCase : UpperCase[i] = c
    THEN LowerCase[CHOOSE i \in DOMAIN UpperCase : UpperCase[i] = c]
    ELSE c

\* the string as it is, were .lower() left out
Lower_Unchanged(s) == s

\* s.lower()
Lower(s) == [i \in DOMAIN s |-> LowerChar(s[i])]

\* s.startswith(old)
StartsWith(s, old) == Len(old) <= Len(s) /\ SubSeq(s, 1, Len(old)) = old

\* s.replace(old, new): every non-overlapping occurrence, left to right
RECURSIVE Replace(_, _, _)
Replace(s, old, new) ==
    IF s = <<>> THEN <<>>
    ELSE IF StartsWith(s, old)
         THEN new \o Replace(SubSeq(s, Len(old) + 1, Len(s)), old, new)
         ELSE <<Head(s)>> \o Replace(Tail(s), old, new)

\* the digits of a fraction counted in thousandths, trailing zeros dropped
FractionDigits(f) ==
    IF f % 100 = 0 THEN <<Digit(f \div 100)>>
    ELSE IF f % 10 = 0 THEN <<Digit(f \div 100), Digit((f \div 10) % 10)>>
    ELSE <<Digit(f \div 100), Digit((f \div 10) % 10), Digit(f % 10)>>

\* f'{x:g}' of a number counted in thousandths, 0 <= x < 1000 m
FormatG(x) ==
    IF x % 1000 = 0 THEN Join(Str(x \div 1000))
    ELSE Join(Str(x \div 1000)) \o "." \o Join(FractionDigits(x % 1000))

----------------------------------------------------------------------------
(* _stac_product_lookup *)

KNOWN_CONSTELLATIONS == {"sentinel-2"}

\* the literal 's2_l2a'
S2_L2A == <<"s", "2", "_", "l", "2", "a">>

\* the region code, were the zone taken as the number epsg % 100
RegionCode_Mod100(properties) ==
    Join(Str(properties["proj:epsg"] % 100))
        \o properties["sentinel:latitude_band"]
        \o properties["sentinel:grid_square"]

\* lines 27-31: '{}{}{}'.format(str(epsg)[-2:], latitude_band, grid_square)
RegionCode(properties) ==
    Join(LastTwo(Str(properties["proj:epsg"])))
        \o properties["sentinel:latitude_band"]
        \o properties["sentinel:grid_square"]

\* the subscripts of properties evaluated by lines 17 and 21, in order
LookupKeys == <<"platform", "constellation">>

\* the subscripts evaluated by lines 25-30, in order
SentinelKeys == <<"sentinel:product_id", "proj:epsg",
                  "sentinel:latitude_band", "sentinel:grid_square">>

_stac_product_lookup(item) ==
    LET properties == item["properties"]
        missing    == FirstMissing(properties, LookupKeys)
    IN  IF missing # None THEN Raise(KeyError(missing[1]))
        ELSE IF /\ properties["constellation"] \in KNOWN_CONSTELLATIONS
                /\ properties["constellation"] = "sentinel-2"
        THEN LET absent == FirstMissing(properties, SentinelKeys)
             IN  IF absent # None THEN Raise(KeyError(absent[1]))
                 ELSE Return([product_label |-> properties["sentinel:product_id"],
                              product_name  |-> S2_L2A,
                              region_code   |-> Some(RegionCode(properties))])
        ELSE Return([product_label |-> item["id"],
                     product_name  |-> properties["platform"],
                     region_code   |-> None])

----------------------------------------------------------------------------
(* _get_stac_bands *)

COG == "image/tiff; application=geotiff; profile=cloud-optimized"

\* the test of line 45, were every image type let through
IsCog_AnyImage(asset) == asset["type"] \in {COG, "image/jp2"}

\* line 45: the asset is an actual COG
IsCog(asset) == asset["type"] \in {COG}

\* line 49: f'g{transform[0]:g}m'
GridKey(transform) == "g" \o FormatG(transform[1]) \o "m"

\* lines 51-55: the first asset of a key records the grid
RecordGrid(g, grid, asset) ==
    IF grid \notin DOMAIN g
    THEN g @@ (grid :> [shape     |-> asset["proj:shape"],
                        transform |-> asset["proj:transform"]])
    ELSE g

\* Path(path).name: the last segment of the path
PathName(path) == IF path = <<>> THEN <<>> ELSE <<path[Len(path)]>>

\* lines 57-66, were line 66 not guarded by line 65
BandInfo_AlwaysGrid(asset, grid, dgrid, rel) ==
    [path |-> IF rel THEN PathName(asset["href"]) ELSE asset["href"],
     grid |-> grid]

\* lines 57-66
BandInfo(asset, grid, dgrid, rel) ==
    LET path == IF rel THEN PathName(asset["href"]) ELSE asset["href"]
    IN  IF grid # dgrid
        THEN [path |-> path, grid |-> grid]
        ELSE [path |-> path]

\* bands[asset_name] = band_info
SetItem(d, key, value) == [k \in DOMAIN d \cup {key} |-> IF k = key THEN value ELSE d[k]]

\* lines 44-68: one iteration of the loop over assets.items()
LoopBody(acc, asset_name, asset, dgrid, rel) ==
    IF ~IsCog(asset) THEN acc
    ELSE LET grid == GridKey(asset["proj:transform"])
         IN  [bands |-> SetItem(acc.bands, asset_name,
                                BandInfo(asset, grid, dgrid, rel)),
              grids |-> RecordGrid(acc.grids, grid, asset)]

\* line 43: for asset_name, asset in assets.items()
RECURSIVE ForAssets(_, _, _, _)
ForAssets(items, acc, dgrid, rel) ==
    IF items = <<>> THEN acc
    ELSE ForAssets(Tail(items),
                   LoopBody(acc, Head(items)[1], Head(items)[2], dgrid, rel),
                   dgrid, rel)

\* line 70 alone, were line 71 left out
RenameDefault_KeepOriginal(g, dgrid) == SetItem(g, "default", g[dgrid])

\* lines 70-71: grids['default'] = grids[default_grid]; del grids[default_grid]
RenameDefault(g, dgrid) ==
    LET assigned == SetItem(g, "default", g[dgrid])
    IN  [k \in DOMAIN assigned \ {dgrid} |-> assigned[k]]

\* _get_stac_bands, were a missing default grid passed over in silence
_get_stac_bands_Lenient(item, dgrid, rel) ==
    LET acc == ForAssets(item["assets"], [bands |-> <<>>, grids |-> <<>>],
                         dgrid, rel)
    IN  IF dgrid \notin DOMAIN acc.grids THEN Return(acc)
        ELSE Return([bands |-> acc.bands,
                     grids |-> RenameDefault(acc.grids, dgrid)])

_get_stac_bands(item, dgrid, rel) ==
    LET acc == ForAssets(item["assets"], [bands |-> <<>>, grids |-> <<>>],
                         dgrid, rel)
    IN  IF dgrid \notin DOMAIN acc.grids THEN Raise(KeyError(dgrid))
        ELSE Return([bands |-> acc.bands,
                     grids |-> RenameDefault(acc.grids, dgrid)])

----------------------------------------------------------------------------
(* _geographic_to_projected *)

\* Geometry(geometry, 'EPSG:4326').to_crs(crs, resolution=math.inf): every
\* vertex is mapped, none is added, so the ring keeps its topology
ToCrs(geojson, crs) ==
    [type |-> geojson.type,
     coordinates |-> [ring |-> geojson.coordinates.ring, crs |-> crs]]

\* geom.is_valid: the ring is closed, not collapsed and does not cross itself
IsValid(geom) == geom.coordinates.ring = "simple"

\* _geographic_to_projected, were the result returned without the test of
\* line 83
_geographic_to_projected_Unchecked(geojson, crs) == Some(ToCrs(geojson, crs))

_geographic_to_projected(geojson, crs) ==
    LET geom == ToCrs(geojson, crs)
    IN  IF IsValid(geom) THEN Some(geom) ELSE None

----------------------------------------------------------------------------
(* stac_transform *)

\* odc_uuid(algorithm, algorithm_version, sources): a stable identifier,
\* different for different sources
odc_uuid(algorithm, algorithm_version, sources) ==
    [algorithm |-> algorithm, algorithm_version |-> algorithm_version,
     sources |-> sources]

\* line 98, were the id derived from the item's own id
DeterministicUuid_FromItemId(item, label) ==
    odc_uuid("sentinel-2_stac_process", "1.0.0", <<item["id"]>>)

\* line 98
DeterministicUuid(item, label) ==
    odc_uuid("sentinel-2_stac_process", "1.0.0", <<label>>)

\* line 103, were an absent code read as WGS84
Epsg_Default(properties) ==
    IF "proj:epsg" \notin DOMAIN properties THEN Return(4326)
    ELSE Return(properties["proj:epsg"])

\* line 103: properties['proj:epsg']
Epsg(properties) ==
    IF "proj:epsg" \notin DOMAIN properties THEN Raise(KeyError("proj:epsg"))
    ELSE Return(properties["proj:epsg"])

\* line 104: f"epsg:{epsg}"
NativeCrs(epsg) == "epsg:" \o Join(Str(epsg))

\* the literal "000+00:00"
MalformedSuffix == <<"0", "0", "0", "+", "0", "0", ":", "0", "0">>

\* properties['datetime'].replace("000+00:00", "Z")
NormalDatetime(datetime) == Replace(datetime, MalformedSuffix, <<"Z">>)

\* the subscripts of properties evaluated by lines 118-122, in order
AssembleKeys == <<"datetime", "eo:cloud_cover", "gsd", "instruments">>

\* lines 117-125 and 130-131: the 'properties' of the document
OdcProperties(properties, region) ==
    LET fixed == [k \in {"datetime", "odc:processing_datetime"}
                     |-> NormalDatetime(properties["datetime"])]
                 @@ ("eo:cloud_cover" :> properties["eo:cloud_cover"])
                 @@ ("eo:gsd" :> properties["gsd"])
                 @@ ("eo:instrument" :> properties["instruments"][1])
                 @@ ("eo:platform" :> properties["platform"])
                 @@ ("odc:file_format" :> "GeoTIFF")
    IN  IF Truthy(region) THEN fixed @@ ("odc:region_code" :> region[1])
        ELSE fixed

\* lines 133-134: geometry only when the reprojector returned one
WithGeometry(doc, geom) ==
    IF geom # None THEN doc @@ ("geometry" :> geom[1]) ELSE doc

\* lines 108-136
Assemble(item, label, name, region, uuid, crs, bnds, grds, geom) ==
    LET properties == item["properties"]
        missing    == FirstMissing(properties, AssembleKeys)
    IN  IF missing # None THEN Raise(KeyError(missing[1]))
        ELSE IF properties["instruments"] = <<>> THEN Raise(IndexError)
        ELSE IF "platform" \notin DOMAIN properties THEN Raise(KeyError("platform"))
        ELSE Return(WithGeometry(
                 ("$schema" :> "https://schemas.opendatacube.org/dataset")
                 @@ ("id" :> uuid)
                 @@ ("crs" :> crs)
                 @@ ("grids" :> grds)
                 @@ ("product" :> [name |-> Lower(name)])
                 @@ ("label" :> label)
                 @@ ("properties" :> OdcProperties(properties, region))
                 @@ ("measurements" :> bnds)
                 @@ ("lineage" :> <<>>),
                 geom))

----------------------------------------------------------------------------
(* The explored inputs *)

Chars_Sentinel2A == <<"S", "e", "n", "t", "i", "n", "e", "l", "-", "2", "A">>

Chars_LANDSAT_8 == <<"L", "A", "N", "D", "S", "A", "T", "_", "8">>

\* "2020-08-01T10:10:10.000000+00:00"
Chars_Datetime == <<"2", "0", "2", "0", "-", "0", "8", "-", "0", "1", "T",
                    "1", "0", ":", "1", "0", ":", "1", "0", ".",
                    "0", "0", "0", "0", "0", "0", "+", "0", "0", ":", "0", "0">>

Ids == {"S2A_item_1", "LC08_item_2"}

Constellations == {"sentinel-2", "landsat-8"}

\* one of them is also an item id: two missions can resolve to one label
ProductIds == {"S2A_item_1", "S2A_MSIL2A_20200801_T33UXV"}

\* EPSG codes of UTM zones 33N and 5N
Epsgs == {32633, 32605}

InstrumentLists == {<<>>, <<"msi">>}

PropertyKeys == {"platform", "constellation", "datetime", "eo:cloud_cover",
                 "gsd", "instruments", "proj:epsg", "sentinel:product_id",
                 "sentinel:latitude_band", "sentinel:grid_square"}

FullProperties(constellation, product_id, epsg, instruments) ==
    ("platform" :> IF constellation = "sentinel-2"
                   THEN Chars_Sentinel2A ELSE Chars_LANDSAT_8)
    @@ ("constellation" :> constellation)
    @@ ("datetime" :> Chars_Datetime)
    @@ ("eo:cloud_cover" :> 12)
    @@ ("gsd" :> 10)
    @@ ("instruments" :> instruments)
    @@ ("proj:epsg" :> epsg)
    @@ ("sentinel:product_id" :> product_id)
    @@ ("sentinel:latitude_band" :> "U")
    @@ ("sentinel:grid_square" :> "XV")

\* a dict without the keys of absent
Without(d, absent) == [k \in DOMAIN d \ absent |-> d[k]]

AbsentSets == {a \in SUBSET PropertyKeys : Cardinality(a) <= MaxMissing}

PropertySets ==
    {Without(FullProperties(c, p, e, i), a) :
        c \in Constellations, p \in ProductIds, e \in Epsgs,
        i \in InstrumentLists, a \in AbsentSets}

\* footprints in longitude/latitude: a simple ring, one that crosses itself,
\* one collapsed to a line
Rings == {"simple", "bowtie", "collapsed"}

Footprint(ring) ==
    [type |-> "Polygon", coordinates |-> [ring |-> ring, crs |-> "EPSG:4326"]]

Href(file) == <<"s3://bucket", "tiles", file>>

\* a raster asset with the projection fields; numbers in thousandths
Raster(type, file, spacing, side, west) ==
    ("type" :> type)
    @@ ("href" :> Href(file))
    @@ ("proj:shape" :> <<side, side>>)
    @@ ("proj:transform" :> <<spacing, 0, west, 0, 0 - spacing, 1000020000>>)

AssetKinds == {"cog10", "cog10b", "cog20", "cog2.5", "jp2", "xml"}

Asset(kind, name) ==
    CASE kind = "cog10"  -> Raster(COG, name \o ".tif", 10000, 10980, 600000000)
      [] kind = "cog10b" -> Raster(COG, name \o ".tif", 10000, 5490, 654900000)
      [] kind = "cog20"  -> Raster(COG, name \o ".tif", 20000, 5490, 600000000)
      [] kind = "cog2.5" -> Raster(COG, name \o ".tif", 2500, 43920, 600000000)
      [] kind = "jp2"    -> Raster("image/jp2", name \o ".jp2", 10000, 10980, 600000000)
      [] kind = "xml"    -> [type |-> "application/xml", href |-> Href(name \o ".xml")]

AssetName(i) == "B0" \o Digit(i)

\* the assets dict whose i-th entry is of kind kinds[i]
Assets(kinds) == [i \in DOMAIN kinds |-> <<AssetName(i), Asset(kinds[i], AssetName(i))>>]

AssetDicts == {Assets(k) : k \in UNION {[1..n -> AssetKinds] : n \in 0..MaxAssets}}

\* the assets of the items handed to stac_transform
SampleAssets ==
    {Assets(<<>>), Assets(<<"cog10", "cog10">>), Assets(<<"cog10", "cog20">>),
     Assets(<<"cog20", "xml">>), Assets(<<"jp2", "cog10b">>)}

Item(id, properties, assets, ring) ==
    [id |-> id, properties |-> properties, assets |-> assets,
     geometry |-> Footprint(ring)]

\* the items handed to stac_transform and stac_transform_absolute
TransformItems ==
    {Item(id, p, a, r) : id \in Ids, p \in PropertySets, a \in SampleAssets,
                         r \in Rings}

\* the items handed to _get_stac_bands
BandItems ==
    {Item("S2A_item_1",
          FullProperties("sentinel-2", "S2A_item_1", 32633, <<"msi">>),
          a, "simple") : a \in AssetDicts}

DefaultGrids == {"g10m", "g20m"}

----------------------------------------------------------------------------
(* The calls, statement by statement *)

Unset ==
    /\ default_grid = ""
    /\ relative = FALSE
    /\ product_label = ""
    /\ product_name = <<>>
    /\ region_code = None
    /\ deterministic_uuid = <<>>
    /\ bands = <<>>
    /\ grids = <<>>
    /\ native_crs = ""
    /\ geometry = None
    /\ stac_odc = <<>>
    /\ error = NoError

Init == input_stac \in TransformItems /\ pc = "call" /\ Unset

InitBands == input_stac \in BandItems /\ pc = "call_bands" /\ Unset

\* the exception leaves the call: nothing is returned
Propagate(e) ==
    /\ pc' = "raised"
    /\ error' = e

\* line 92: stac_transform(input_stac, relative=True)
stac_transform ==
    /\ pc = "call"
    /\ relative' = TRUE
    /\ pc' = "line96"
    /\ UNCHANGED <<input_stac, default_grid, product_label, product_name,
                   region_code, deterministic_uuid, bands, grids, native_crs,
                   geometry, stac_odc, error>>

\* lines 88-89: stac_transform(input_stac, relative=False)
stac_transform_absolute ==
    /\ pc = "call"
    /\ relative' = FALSE
    /\ pc' = "line96"
    /\ UNCHANGED <<input_stac, default_grid, product_label, product_name,
                   region_code, deterministic_uuid, bands, grids, native_crs,
                   geometry, stac_odc, error>>

\* line 96
Line96 ==
    /\ pc = "line96"
    /\ LET r == _stac_product_lookup(input_stac)
       IN  IF r.raised
           THEN /\ Propagate(r.error)
                /\ UNCHANGED <<product_label, product_name, region_code>>
           ELSE /\ product_label' = r.value.product_label
                /\ product_name' = r.value.product_name
                /\ region_code' = r.value.region_code
                /\ pc' = "line98"
                /\ UNCHANGED error
    /\ UNCHANGED <<input_stac, default_grid, relative, deterministic_uuid,
                   bands, grids, native_crs, geometry, stac_odc>>

\* line 98
Line98 ==
    /\ pc = "line98"
    /\ deterministic_uuid' = DeterministicUuid(input_stac, product_label)
    /\ pc' = "line100"
    /\ UNCHANGED <<input_stac, default_grid, relative, product_label,
                   product_name, region_code, bands, grids, native_crs,
                   geometry, stac_odc, error>>

\* line 100
Line100 ==
    /\ pc = "line100"
    /\ default_grid' = "g10m"
    /\ LET r == _get_stac_bands(input_stac, "g10m", relative)
       IN  IF r.raised
           THEN /\ Propagate(r.error)
                /\ UNCHANGED <<bands, grids>>
           ELSE /\ bands' = r.value.bands
                /\ grids' = r.value.grids
                /\ pc' = "line102"
                /\ UNCHANGED error
    /\ UNCHANGED <<input_stac, relative, product_label, product_name,
                   region_code, deterministic_uuid, native_crs, geometry,
                   stac_odc>>

\* lines 102-104
Line102 ==
    /\ pc = "line102"
    /\ LET r == Epsg(input_stac["properties"])
       IN  IF r.raised
           THEN /\ Propagate(r.error)
                /\ UNCHANGED native_crs
           ELSE /\ native_crs' = NativeCrs(r.value)
                /\ pc' = "line106"
                /\ UNCHANGED error
    /\ UNCHANGED <<input_stac, default_grid, relative, product_label,
                   product_name, region_code, deterministic_uuid, bands, grids,
                   geometry, stac_odc>>

\* line 106
Line106 ==
    /\ pc = "line106"
    /\ geometry' = _geographic_to_projected(input_stac["geometry"], native_crs)
    /\ pc' = "line108"
    /\ UNCHANGED <<input_stac, default_grid, relative, product_label,
                   product_name, region_code, deterministic_uuid, bands, grids,
                   native_crs, stac_odc, error>>

\* lines 108-136
Line108 ==
    /\ pc = "line108"
    /\ LET r == Assemble(input_stac, product_label, product_name, region_code,
                         deterministic_uuid, native_crs, bands, grids, geometry)
       IN  IF r.raised
           THEN /\ Propagate(r.error)
                /\ UNCHANGED stac_odc
           ELSE /\ stac_odc' = r.value
                /\ pc' = "returned"
                /\ UNCHANGED error
    /\ UNCHANGED <<input_stac, default_grid, relative, product_label,
                   product_name, region_code, deterministic_uuid, bands, grids,
                   native_crs, geometry>>

Next ==
    \/ stac_transform
    \/ stac_transform_absolute
    \/ Line96
    \/ Line98
    \/ Line100
    \/ Line102
    \/ Line106
    \/ Line108

Spec == Init /\ [][Next]_vars

\* line 36: _get_stac_bands(item, default_grid, relative) called on its own
CallGetStacBands ==
    /\ pc = "call_bands"
    /\ default_grid' \in DefaultGrids
    /\ relative' \in BOOLEAN
    /\ pc' = "line37"
    /\ UNCHANGED <<input_stac, product_label, product_name, region_code,
                   deterministic_uuid, bands, grids, native_crs, geometry,
                   stac_odc, error>>

\* lines 37-73
Line37 ==
    /\ pc = "line37"
    /\ LET r == _get_stac_bands(input_stac, default_grid, relative)
       IN  IF r.raised
           THEN /\ Propagate(r.error)
                /\ UNCHANGED <<bands, grids>>
           ELSE /\ bands' = r.value.bands
                /\ grids' = r.value.grids
                /\ pc' = "returned"
                /\ UNCHANGED error
    /\ UNCHANGED <<input_stac, default_grid, relative, product_label,
                   product_name, region_code, deterministic_uuid, native_crs,
                   geometry, stac_odc>>

NextBands == CallGetStacBands \/ Line37

SpecBands == InitBands /\ [][NextBands]_vars

----------------------------------------------------------------------------
(* Properties of _get_stac_bands, checked under SpecBands *)

\* the positions of the assets whose media type is the COG type
CogPositions == {i \in DOMAIN input_stac.assets : input_stac.assets[i][2].type = COG}

AssetNameAt(i) == input_stac.assets[i][1]

\* the pixel spacing of the asset at position i, in thousandths
SpacingAt(i) == input_stac.assets[i][2]["proj:transform"][1]

\* the grid key the specification gives a pixel spacing: g<spacing>m, the
\* spacing without unnecessary trailing zeros
ExpectedKey(spacing) ==
    CASE spacing = 10000 -> "g10m"
      [] spacing = 20000 -> "g20m"
      [] spacing = 2500  -> "g2.5m"

\* C1: whenever _get_stac_bands returns, grids has the entry 'default', and
\* every measurement either has no 'grid' field or names a key of grids.
C1_GridCompleteness ==
    pc = "returned" =>
        /\ Cardinality({k \in DOMAIN grids : k = "default"}) = 1
        /\ \A b \in DOMAIN bands :
               "grid" \in DOMAIN bands[b] => bands[b].grid \in DOMAIN grids

\* a returned result in which a band names a grid other than the default
C1_Witness ==
    /\ pc = "returned"
    /\ \E b \in DOMAIN bands : "grid" \in DOMAIN bands[b]
    /\ Cardinality(DOMAIN grids) >= 2

\* the first COG asset, in stored order, whose spacing is that of the
\* configured default key: the one whose descriptor line 52 records under it
FirstOfDefault ==
    LET hits == {i \in CogPositions : ExpectedKey(SpacingAt(i)) = default_grid}
    IN  CHOOSE i \in hits : \A j \in hits : i <= j

\* C2: whenever _get_stac_bands returns, the configured default key is not a
\* key of grids, and the descriptor recorded under it is the one under
\* 'default', and under no other key.
C2_DefaultRewrite ==
    pc = "returned" =>
        /\ default_grid \notin DOMAIN grids
        /\ "default" \in DOMAIN grids
        /\ grids["default"] =
               [shape     |-> input_stac.assets[FirstOfDefault][2]["proj:shape"],
                transform |-> input_stac.assets[FirstOfDefault][2]["proj:transform"]]
        /\ \A k \in DOMAIN grids \ {"default"} : grids[k] # grids["default"]

\* a returned result with the default grid and another one
C2_Witness ==
    /\ pc = "returned"
    /\ default_grid = "g20m"
    /\ "g10m" \in DOMAIN grids
    /\ grids["default"].transform[1] = 20000

\* C10: the measurements are exactly the COG assets; the grids are exactly
\* the grids of the COG assets; a measurement has a 'grid' field iff its
\* asset's grid key is not the configured default, and then it is that key.
C10_CogAssetsOnly ==
    pc = "returned" =>
        /\ DOMAIN bands = {AssetNameAt(i) : i \in CogPositions}
        /\ DOMAIN grids =
               ({ExpectedKey(SpacingAt(i)) : i \in CogPositions} \ {default_grid})
                   \cup {"default"}
        /\ \A i \in CogPositions :
               LET band == bands[AssetNameAt(i)]
                   key  == ExpectedKey(SpacingAt(i))
               IN  /\ ("grid" \in DOMAIN band) <=> (key # default_grid)
                   /\ "grid" \in DOMAIN band => band.grid = key

\* a returned result for an item with an asset of another media type, a COG
\* asset of the default grid and a COG asset of another grid
C10_Witness ==
    /\ pc = "returned"
    /\ \E i \in DOMAIN input_stac.assets : i \notin CogPositions
    /\ \E i \in CogPositions : "grid" \in DOMAIN bands[AssetNameAt(i)]
    /\ \E i \in CogPositions : "grid" \notin DOMAIN bands[AssetNameAt(i)]

\* the item with its assets stored in another order
Reordered(item, order) ==
    [item EXCEPT !.assets = [i \in DOMAIN order |-> item.assets[order[i]]]]

Orders(n) == {o \in [1..n -> 1..n] : \A i, j \in 1..n : o[i] = o[j] => i = j}

\* C9: the result of _get_stac_bands is the same for every order of the
\* assets: the same measurements, and the same shape and transform under
\* the same grid keys.
C9_OrderIndependent ==
    pc = "returned" =>
        \A o \in Orders(Len(input_stac.assets)) :
            LET r == _get_stac_bands(Reordered(input_stac, o), default_grid, relative)
            IN  /\ ~r.raised
                /\ r.value.bands = bands
                /\ r.value.grids = grids

----------------------------------------------------------------------------
(* Properties of stac_transform, checked under Spec *)

Properties == input_stac.properties

\* a COG asset of the item has the 10 m spacing of stac_transform's default grid
HasDefaultAsset == \E i \in CogPositions : SpacingAt(i) = 10000

SentinelRequired == {"sentinel:product_id", "proj:epsg",
                     "sentinel:latitude_band", "sentinel:grid_square"}

AlwaysRequired == {"datetime", "eo:cloud_cover", "gsd", "instruments",
                   "platform", "proj:epsg"}

IsSentinel2 ==
    "constellation" \in DOMAIN Properties /\ Properties["constellation"] = "sentinel-2"

\* the resolver reads only fields the item has
ResolverSucceeds ==
    /\ {"platform", "constellation"} \subseteq DOMAIN Properties
    /\ IsSentinel2 => SentinelRequired \subseteq DOMAIN Properties

\* the required fields the item lacks
MissingRequired ==
    (AlwaysRequired \ DOMAIN Properties)
        \cup (IF IsSentinel2 THEN SentinelRequired \ DOMAIN Properties ELSE {})

\* the call has ended, or its next statement can run: with no document
\* returned, the call ends by raising
RunsToAnEnd == pc \in {"returned", "raised"} \/ ENABLED Next

\* the label and the id that lines 96-98 give each explored item
LabelsAndIds ==
    {<<_stac_product_lookup(j).value.product_label,
       DeterministicUuid(j, _stac_product_lookup(j).value.product_label)>> :
        j \in {i \in TransformItems : ~_stac_product_lookup(i).raised}}

\* C3: the id of the returned document goes with its label alone: an item
\* of the same label gets the same id, whatever its other fields, and an
\* item of another label gets another id.
C3_IdentityPurity ==
    pc = "returned" =>
        \A li \in LabelsAndIds : (li[1] = stac_odc["label"]) <=> (li[2] = stac_odc["id"])

\* a document returned for a sentinel-2 item whose label is the id of an
\* item of another mission and not its own id
C3_Witness ==
    /\ pc = "returned"
    /\ IsSentinel2
    /\ stac_odc["label"] # input_stac.id
    /\ stac_odc["label"] \in Ids
    /\ \E li \in LabelsAndIds : li[1] # stac_odc["label"]

\* C4: when no COG asset has the default grid, the call of the consolidator
\* at line 100 raises KeyError(default grid), the error leaves stac_transform
\* and no document is returned.
C4_UnknownDefaultGrid ==
    ~HasDefaultAsset =>
        /\ pc \notin {"line102", "line106", "line108", "returned"}
        /\ stac_odc = <<>>
        /\ (pc = "raised" /\ ResolverSucceeds) =>
               /\ error = KeyError("g10m")
               /\ bands = <<>> /\ grids = <<>>

\* the consolidator failed on an item that has COG assets, none of 10 m
C4_Witness ==
    /\ pc = "raised"
    /\ error = KeyError("g10m")
    /\ CogPositions # {}
    /\ MissingRequired = {}

\* C5: when a required property is absent (one of the six always required,
\* or one of the sentinel-2 profile's for a sentinel-2 item), stac_transform
\* raises KeyError and returns no document.
C5_MissingField ==
    MissingRequired # {} =>
        /\ RunsToAnEnd
        /\ pc # "returned"
        /\ stac_odc = <<>>
        /\ pc = "raised" =>
               /\ error.type = "KeyError"
               /\ error.key \notin DOMAIN Properties
               /\ \/ error.key \in PropertyKeys
                  \/ error.key = "g10m" /\ ~HasDefaultAsset

\* the assembler raised for the one absent property, after every earlier
\* step had succeeded
C5_Witness ==
    /\ pc = "raised"
    /\ error = KeyError("gsd")
    /\ MissingRequired = {"gsd"}
    /\ native_crs # ""

Ring == input_stac.geometry.coordinates.ring

DocumentKeys == {"$schema", "id", "crs", "grids", "product", "label",
                 "properties", "measurements", "lineage"}

\* nothing but the footprint can make the call fail
WellFormed ==
    /\ PropertyKeys \subseteq DOMAIN Properties
    /\ Properties["instruments"] # <<>>
    /\ HasDefaultAsset

\* C6: the returned document has a 'geometry' iff the reprojected footprint
\* is valid; an invalid footprint raises nothing, and the document returned
\* is complete but for 'geometry'.
C6_GeometryGate ==
    /\ pc = "returned" =>
           /\ ("geometry" \in DOMAIN stac_odc) <=> (Ring = "simple")
           /\ DOMAIN stac_odc \ {"geometry"} = DocumentKeys
           /\ Ring = "simple" =>
                  stac_odc["geometry"] =
                      [type |-> "Polygon",
                       coordinates |-> [ring |-> "simple", crs |-> stac_odc["crs"]]]
    /\ WellFormed => RunsToAnEnd /\ pc # "raised"

\* a document returned for a footprint that crosses itself
C6_Witness ==
    /\ pc = "returned"
    /\ Ring = "bowtie"
    /\ "geometry" \notin DOMAIN stac_odc

\* C7: for a constellation outside the known table the label is the item's
\* id, the product name the platform in lower case, and there is no region
\* code, in the resolver's result and in the returned document.
C7_MissionFallback ==
    ("constellation" \in DOMAIN Properties
        /\ Properties["constellation"] \notin {"sentinel-2"}) =>
        /\ pc \in {"line98", "line100", "line102", "line106", "line108", "returned"} =>
               /\ product_label = input_stac.id
               /\ product_name = Properties["platform"]
               /\ region_code = None
        /\ pc = "returned" =>
               /\ stac_odc["label"] = input_stac.id
               /\ stac_odc["product"].name = <<"l", "a", "n", "d", "s", "a", "t", "_", "8">>
               /\ "odc:region_code" \notin DOMAIN stac_odc["properties"]

\* a document returned for a landsat-8 item
C7_Witness ==
    /\ pc = "returned"
    /\ Properties["constellation"] = "landsat-8"
    /\ Properties["platform"] = Chars_LANDSAT_8

\* the last two digits of a code of at least two digits
LastTwoDigits(code) == Digit((code \div 10) % 10) \o Digit(code % 10)

\* C8: for a sentinel-2 item the returned document has product name
\* 's2_l2a', the product id as label and the region code <last two digits
\* of the EPSG code><latitude band><grid square>; when all its COG assets
\* have the default spacing, grids has the one key 'default' and no
\* measurement has a 'grid'.
C8_Sentinel2 ==
    (pc = "returned" /\ IsSentinel2) =>
        /\ stac_odc["product"].name = <<"s", "2", "_", "l", "2", "a">>
        /\ stac_odc["label"] = Properties["sentinel:product_id"]
        /\ "odc:region_code" \in DOMAIN stac_odc["properties"]
        /\ stac_odc["properties"]["odc:region_code"] =
               LastTwoDigits(Properties["proj:epsg"])
                   \o Properties["sentinel:latitude_band"]
                   \o Properties["sentinel:grid_square"]
        /\ Properties["proj:epsg"] = 32633 =>
               stac_odc["properties"]["odc:region_code"] = "33UXV"
        /\ (\A i \in CogPositions : SpacingAt(i) = 10000) =>
               /\ DOMAIN stac_odc["grids"] = {"default"}
               /\ \A b \in DOMAIN stac_odc["measurements"] :
                      "grid" \notin DOMAIN stac_odc["measurements"][b]

\* the specification's example: two 10 m assets, EPSG 32633, U, XV
C8_Witness ==
    /\ pc = "returned"
    /\ IsSentinel2
    /\ Properties["proj:epsg"] = 32633
    /\ Cardinality(CogPositions) = 2
    /\ \A i \in CogPositions : SpacingAt(i) = 10000
    /\ stac_odc["properties"]["odc:region_code"] = "33UXV"

====
